---- MODULE Spec2Model ----
(***************************************************************************)
(* Mind-map structural normalisation (utils/mindmap_postprocess.py) and    *)
(* the mind-map template (template/mindmap_template.py).                   *)
(*                                                                         *)
(* A tree is a Python dict {"class": ..., "nodeDataArray": [node, ...]}.   *)
(* A node is a dict with the fields key, parent, text, brush, dir, loc and *)
(* the transient _depth.  Python mutates the node dicts in place while the *)
(* list `nodes` is re-bound to shorter lists; the model keeps the node     *)
(* objects in `arr` (indexed by their position in the input list) and the  *)
(* current list as the sequence `cur` of indices into `arr`, so that a     *)
(* write through `root` or through a children list reaches the same object *)
(* the output list holds.                                                  *)
(*                                                                         *)
(* Strings whose content the code inspects (the node text) are sequences   *)
(* of Unicode code points.                                                 *)
(***************************************************************************)
EXTENDS Integers, Sequences, FiniteSets, TLC

VARIABLES
    cfg,     \* the Settings the calls run under
    data,    \* the argument of the first call of post_process_mindmap
    out,     \* the value returned by the first call
    ret,     \* the return statement the first call left through
    rootAt,  \* where the node the first call bound to `root` stands in the
             \* returned list (0: not in it, or no root)
    again,   \* the value returned by calling it on `out`
    pc,      \* "start" | "done" | "redone" ("off" while generate runs)
    chunks,        \* generate: the chunks still to be sent to the model
    replies,       \* generate: what the model and the parser handed over,
                   \* one entry per call of _generate_single_pass
    partial_maps,  \* generate: the list partial_maps
    merged,        \* the value _merge_mindmaps returned
    generated,     \* the value generate returned
    gpc,           \* generate: "start" | "single" | "multi" | "returned" |
                   \* "raised" | "hung" ("off" in the post-processing runs)
    text,          \* _chunk_text: the argument text
    size,          \* _chunk_text: the argument size
    overlap,       \* _chunk_text: the argument overlap
    start,         \* _chunk_text: the local start
    windows,       \* _chunk_text: one entry [start, end, chunk] per round of
                   \* the loop; the list `chunks` is the non-empty chunks
    cpc,           \* _chunk_text: "loop" | "returned" ("off" elsewhere)
    response,      \* clean_and_parse_json: the argument response_text
    cleaned_text,  \* clean_and_parse_json: the local cleaned_text once the
                   \* fences are out and the text is sliced to its braces
    tried,         \* clean_and_parse_json: the strategies called so far
    parsed,        \* clean_and_parse_json: the value it returned
    jpc            \* clean_and_parse_json: "called" | "strategies" |
                   \* "returned" | "TypeError" | "ValueError" ("off" elsewhere)

ppVars == <<data, out, ret, rootAt, again, pc>>
genVars == <<chunks, replies, partial_maps, merged, generated, gpc>>
cutVars == <<text, size, overlap, start, windows, cpc>>
parseVars == <<response, cleaned_text, tried, parsed, jpc>>

vars == <<cfg, ppVars, genVars, cutVars, parseVars>>

----------------------------------------------------------------------------
(* Python values *)

NoneV == -1        \* None: what dict.get returns for a missing or null field
Absent == -2       \* the field is not in the dict
Unhashable == -3   \* a list or dict used as a key: hashing it raises TypeError
NoStr == "<absent>"  \* a string field that is not in the dict
NoneStr == "<None>"  \* a string field that is in the dict with the value None

Get(v) == IF v = Absent THEN NoneV ELSE v

Max(a, b) == IF a >= b THEN a ELSE b
Min(a, b) == IF a <= b THEN a ELSE b

----------------------------------------------------------------------------
(* Settings *)

MINDMAP_COLORS ==
    << "gold", "turquoise", "lavender", "aqua",
       "lightcoral", "lightsteelblue", "plum", "lightpink" >>

\* The keyword list of post_process_mindmap, as code points.
example_keywords == <<
    <<1605, 1579, 1575, 1604>>,
    <<1575, 1605, 1579, 1604, 1577>>,
    <<1605, 1579, 1604, 1575, 1611>>,
    <<1605, 1579, 1604>>,
    <<1593, 1604, 1609, 32, 1587, 1576, 1610, 1604, 32, 1575, 1604, 1605, 1579, 1575, 1604>>,
    <<1602, 1589, 1577>>,
    <<1581, 1603, 1575, 1610, 1577>>,
    <<1587, 1610, 1606, 1575, 1585, 1610, 1608>>,
    <<1578, 1580, 1585, 1576, 1577>>,
    <<1578, 1608, 1590, 1610, 1581>>,
    <<1581, 1575, 1604, 1577>>,
    <<1602, 1589, 1589>>,
    <<1581, 1603, 1575, 1610, 1575, 1578>>,
    <<1587, 1610, 1606, 1575, 1585, 1610, 1608, 1607, 1575, 1578>>,
    <<1578, 1580, 1575, 1585, 1576>>,
    <<1578, 1608, 1590, 1610, 1581, 1575, 1578>>,
    <<1581, 1575, 1604, 1575, 1578>>,
    <<101, 120, 97, 109, 112, 108, 101>>,                          \* example
    <<101, 120, 97, 109, 112, 108, 101, 115>>,                     \* examples
    <<101, 46, 103, 46>>,                                          \* e.g.
    <<102, 111, 114, 32, 101, 120, 97, 109, 112, 108, 101>>,       \* for example
    <<99, 97, 115, 101>>,                                          \* case
    <<101, 120, 97, 109, 112, 108, 101>>,                          \* example
    <<101, 46, 103>>,                                              \* e.g
    <<115, 99, 101, 110, 97, 114, 105, 111>>,                      \* scenario
    <<115, 116, 111, 114, 121>>,                                   \* story
    <<105, 108, 108, 117, 115, 116, 114, 97, 116, 105, 111, 110>>, \* illustration
    <<101, 120, 112, 101, 114, 105, 109, 101, 110, 116>>,          \* experiment
    <<99, 97, 115, 101, 32, 115, 116, 117, 100, 121>> >>           \* case study

----------------------------------------------------------------------------
(* str(node.get("text") or "").strip().lower() and the keyword test *)

\* str.lower on one code point (ASCII letters; Arabic has no case)
lower(c) == IF c \in 65..90 THEN c + 32 ELSE c

\* the code points str.strip removes (ASCII white space)
Whitespace == {9, 10, 11, 12, 13, 28, 29, 30, 31, 32}

RECURSIVE lstrip(_)
lstrip(s) == IF s # <<>> /\ Head(s) \in Whitespace THEN lstrip(Tail(s)) ELSE s

RECURSIVE rstrip(_)
rstrip(s) ==
    IF s # <<>> /\ s[Len(s)] \in Whitespace
    THEN rstrip(SubSeq(s, 1, Len(s) - 1)) ELSE s

text_val(t) ==
    LET s == IF t = <<>> THEN <<>> ELSE rstrip(lstrip(t))
    IN  [i \in 1..Len(s) |-> lower(s[i])]

\* kw in s
contains(kw, s) ==
    \E i \in 0..(Len(s) - Len(kw)) : SubSeq(s, i + 1, i + Len(kw)) = kw

\* any(kw in text_val for kw in example_keywords)
matches_example(t) ==
    LET tv == text_val(t)
    IN  \E k \in 1..Len(example_keywords) : contains(example_keywords[k], tv)

----------------------------------------------------------------------------
(* post_process_mindmap: the working state of one call.                    *)
(*   cls    data["class"] (NoStr while the field is missing)               *)
(*   arr    the node objects, by their index in the input list             *)
(*   cur    the list `nodes` (= data["nodeDataArray"]) as indices into arr *)
(*   root   the index of the node `root` is bound to, 0 for None           *)
(*   raised an exception reached the except clause                         *)

frame(d) ==
    [ cls |-> d.class, arr |-> d.nodes,
      cur |-> [i \in 1..Len(d.nodes) |-> i], root |-> 0, raised |-> FALSE ]

\* the value the call returns: `data` as mutated so far
result(st) ==
    [ mapping |-> TRUE, class |-> st.cls, array |-> "list",
      nodes |-> [i \in 1..Len(st.cur) |-> st.arr[st.cur[i]]] ]

\* not a dict, or nodeDataArray missing, not a list, or empty
no_tree(d) == ~d.mapping \/ d.array # "list" \/ d.nodes = <<>>

\* data.setdefault("class", "go.TreeModel")
enforce_class(st) ==
    [st EXCEPT !.cls = IF @ = NoStr THEN "go.TreeModel" ELSE @]

\* find_root with the test `n.get("parent") is None` left out: the last dict
\* entry becomes the root
find_root_any(st) ==
    LET n == Len(st.arr)
        dicts == {i \in 1..n : st.arr[i].isdict}
    IN  IF \E i \in 1..n : st.arr[i].isdict /\ st.arr[i].key = Unhashable
        THEN [st EXCEPT !.raised = TRUE]
        ELSE [st EXCEPT !.root =
                 IF dicts = {} THEN 0
                 ELSE CHOOSE i \in dicts : \A j \in dicts : j <= i]

\* the loop over nodes that fills by_key and binds root to the last dict
\* entry without a parent; by_key[...] raises on an unhashable key
find_root(st) ==
    LET n == Len(st.arr)
        parentless == {i \in 1..n : st.arr[i].isdict /\ Get(st.arr[i].parent) = NoneV}
    IN  IF \E i \in 1..n : st.arr[i].isdict /\ st.arr[i].key = Unhashable
        THEN [st EXCEPT !.raised = TRUE]
        ELSE [st EXCEPT !.root =
                 IF parentless = {} THEN 0
                 ELSE CHOOSE i \in parentless : \A j \in parentless : j <= i]

\* the Python slice s[:m]
prefix(s, m) ==
    IF m >= 0 THEN SubSeq(s, 1, Min(m, Len(s)))
    ELSE SubSeq(s, 1, Max(0, Len(s) + m))

\* limit_nodes with the truncation left out
limit_nodes_skipped(st, c) == st

\* if len(nodes) > MINDMAP_MAX_NODES: nodes = nodes[:MINDMAP_MAX_NODES]
limit_nodes(st, c) ==
    IF Len(st.cur) > c.MINDMAP_MAX_NODES
    THEN [st EXCEPT !.cur = prefix(@, c.MINDMAP_MAX_NODES)]
    ELSE st

\* children.get(k, []) of the mapping built by
\*   for n in nodes: children.setdefault(n.get("parent"), []).append(n)
children(arr, cur, k) ==
    SelectSeq(cur, LAMBDA i : Get(arr[i].parent) = k)

\* building the children mapping calls n.get on every entry of nodes:
\* AttributeError on an entry that is not a dict
build_children(st) ==
    IF \E i \in 1..Len(st.cur) : ~st.arr[st.cur[i]].isdict
    THEN [st EXCEPT !.raised = TRUE]
    ELSE st

\* the keys the stack walk from the orphan roots collects: the orphan roots'
\* keys and the key of every child of a collected key
RECURSIVE orphan_closure(_, _, _)
orphan_closure(arr, cur, keys) ==
    LET more == { arr[cur[i]].key : i \in
                    {j \in 1..Len(cur) : Get(arr[cur[j]].parent) \in keys} }
    IN  IF more \subseteq keys THEN keys
        ELSE orphan_closure(arr, cur, keys \cup more)

\* orphan pruning
prune_orphans(st) ==
    LET arr == st.arr
        cur == st.cur
        existing_keys == { arr[cur[i]].key : i \in 1..Len(cur) }
        orphan_roots == { i \in 1..Len(cur) :
                            /\ Get(arr[cur[i]].parent) # NoneV
                            /\ Get(arr[cur[i]].parent) \notin existing_keys }
        orphan_keys == orphan_closure(arr, cur,
                           { arr[cur[i]].key : i \in orphan_roots })
    IN  IF orphan_roots = {} THEN st
        ELSE [st EXCEPT !.cur = SelectSeq(cur, LAMBDA i : arr[i].key \notin orphan_keys)]

\* assign_depth(node, depth, visited): s = [arr, visited]
RECURSIVE assign_depth(_, _, _, _)
RECURSIVE assign_depth_loop(_, _, _, _)
assign_depth(s, cur, node, depth) ==
    assign_depth_loop([s EXCEPT !.arr[node]._depth = depth], cur,
                      children(s.arr, cur, s.arr[node].key), depth)
assign_depth_loop(s, cur, chs, depth) ==
    IF chs = <<>> THEN s
    ELSE LET k == s.arr[Head(chs)].key
         IN  IF k \in s.visited
             THEN assign_depth_loop(s, cur, Tail(chs), depth)
             ELSE assign_depth_loop(
                      assign_depth([s EXCEPT !.visited = @ \cup {k}],
                                   cur, Head(chs), depth + 1),
                      cur, Tail(chs), depth)

\* assign_depth(root, 0, {root.get("key")})
assign_depths(st) ==
    [st EXCEPT !.arr =
        assign_depth([arr |-> st.arr, visited |-> {st.arr[st.root].key}],
                     st.cur, st.root, 0).arr]

\* dfs_keep(node, depth): r = [keep, err]; it has no visited set, so with
\* unlimited depth a walk that is deeper than the list is long has come back
\* to a node it is inside of and ends in RecursionError (a depth limit, far
\* below the interpreter's recursion limit, ends the walk first)
RECURSIVE dfs_keep(_, _, _, _, _, _)
RECURSIVE dfs_keep_loop(_, _, _, _, _, _)
dfs_keep(c, arr, cur, node, depth, r) ==
    IF r.err THEN r
    ELSE IF c.MINDMAP_MAX_DEPTH >= 0 /\ depth > Max(0, c.MINDMAP_MAX_DEPTH) THEN r
    ELSE IF c.MINDMAP_EXCLUDE_EXAMPLES /\ matches_example(arr[node].text) THEN r
    ELSE IF c.MINDMAP_MAX_DEPTH < 0 /\ depth > Len(cur) THEN [r EXCEPT !.err = TRUE]
    ELSE dfs_keep_loop(c, arr, cur, children(arr, cur, arr[node].key), depth,
                       [r EXCEPT !.keep = @ \cup {arr[node].key}])
dfs_keep_loop(c, arr, cur, chs, depth, r) ==
    IF chs = <<>> \/ r.err THEN r
    ELSE dfs_keep_loop(c, arr, cur, Tail(chs), depth,
                       dfs_keep(c, arr, cur, Head(chs), depth + 1, r))

\* the nodes kept by the depth and example rules: the filter runs only when
\* the keep set and the list differ in size and the depth is limited
prune_depth_examples(st, c) ==
    LET arr == st.arr
        cur == st.cur
        r == dfs_keep(c, arr, cur, st.root, 0, [keep |-> {}, err |-> FALSE])
        to_keep == r.keep
    IN  IF r.err THEN [st EXCEPT !.raised = TRUE]
        ELSE IF Cardinality(to_keep) # Len(cur) /\ ~(c.MINDMAP_MAX_DEPTH < 0)
        THEN [st EXCEPT !.cur = SelectSeq(cur, LAMBDA i :
                 /\ arr[i].key \in to_keep
                 /\ (Get(arr[i].parent) = NoneV \/ Get(arr[i].parent) \in to_keep))]
        ELSE st

\* n["brush"] = colors[max(0, min(n.get("_depth", 0), len(colors) - 1))]
color_by_depth(st) ==
    [st EXCEPT !.arr = [i \in 1..Len(st.arr) |->
        IF \E j \in 1..Len(st.cur) : st.cur[j] = i
        THEN LET d == IF st.arr[i]._depth = Absent THEN 0 ELSE st.arr[i]._depth
             IN  [st.arr[i] EXCEPT
                    !.brush = MINDMAP_COLORS[Max(0, Min(d, Len(MINDMAP_COLORS) - 1)) + 1]]
        ELSE st.arr[i]]]

\* count_descendants(node_key); -1 stands for RecursionError: the walk has
\* no visited set, and nesting deeper than the list is long never ends
RECURSIVE count_descendants(_, _, _, _)
RECURSIVE count_descendants_loop(_, _, _, _, _)
count_descendants(arr, cur, node_key, fuel) ==
    IF fuel = 0 THEN -1
    ELSE count_descendants_loop(arr, cur, children(arr, cur, node_key), fuel, 0)
count_descendants_loop(arr, cur, chs, fuel, cnt) ==
    IF chs = <<>> THEN cnt
    ELSE LET sub == count_descendants(arr, cur, arr[Head(chs)].key, fuel - 1)
         IN  IF sub < 0 THEN -1
             ELSE count_descendants_loop(arr, cur, Tail(chs), fuel, cnt + 1 + sub)

\* the branches left in the order of the node list
sort_by_weight_skipped(bw) == bw

\* branch_weights.sort(key=weight, reverse=True): stable, heaviest first
RECURSIVE sort_by_weight(_)
sort_by_weight(bw) ==
    IF bw = <<>> THEN <<>>
    ELSE LET x == bw[Len(bw)]
             s == sort_by_weight(SubSeq(bw, 1, Len(bw) - 1))
             before == SelectSeq(s, LAMBDA y : y.weight >= x.weight)
             after == SelectSeq(s, LAMBDA y : y.weight < x.weight)
         IN  before \o <<x>> \o after

\* the greedy loop: b = [arr, left_total, right_total]
RECURSIVE assign_sides(_, _)
assign_sides(b, bw) ==
    IF bw = <<>> THEN b
    ELSE LET x == Head(bw)
         IN  IF b.left_total <= b.right_total
             THEN assign_sides([b EXCEPT !.arr[x.branch].dir = "left",
                                         !.left_total = @ + x.weight], Tail(bw))
             ELSE assign_sides([b EXCEPT !.arr[x.branch].dir = "right",
                                         !.right_total = @ + x.weight], Tail(bw))

\* propagate_dir(node)
RECURSIVE propagate_dir(_, _, _)
RECURSIVE propagate_dir_loop(_, _, _, _)
propagate_dir(arr, cur, node) ==
    propagate_dir_loop(arr, cur, children(arr, cur, arr[node].key), node)
propagate_dir_loop(arr, cur, chs, node) ==
    IF chs = <<>> THEN arr
    ELSE propagate_dir_loop(
             propagate_dir([arr EXCEPT ![Head(chs)].dir = arr[node].dir], cur, Head(chs)),
             cur, Tail(chs), node)

RECURSIVE propagate_all(_, _, _)
propagate_all(arr, cur, branches) ==
    IF branches = <<>> THEN arr
    ELSE propagate_all(propagate_dir(arr, cur, Head(branches)), cur, Tail(branches))

\* direction balancing of the main branches
balance_directions(st) ==
    LET arr == st.arr
        cur == st.cur
        main_branches == children(arr, cur, arr[st.root].key)
        weights == [i \in 1..Len(main_branches) |->
                      count_descendants(arr, cur, arr[main_branches[i]].key, Len(cur))]
        branch_weights == [i \in 1..Len(main_branches) |->
                      [branch |-> main_branches[i], weight |-> 1 + weights[i]]]
    IN  IF \E i \in 1..Len(main_branches) : weights[i] < 0
        THEN [st EXCEPT !.raised = TRUE]
        ELSE [st EXCEPT !.arr =
                 propagate_all(
                     assign_sides([arr |-> arr, left_total |-> 0, right_total |-> 0],
                                  sort_by_weight(branch_weights)).arr,
                     cur, main_branches)]

\* if not root.get("loc"): root["loc"] = "0 0"
ensure_root_loc(st) ==
    IF st.arr[st.root].loc \in {NoStr, ""}
    THEN [st EXCEPT !.arr[st.root].loc = "0 0"]
    ELSE st

\* n.pop("_depth", None); a parent that is None is deleted
cleanup(st) ==
    [st EXCEPT !.arr = [i \in 1..Len(st.arr) |->
        IF \E j \in 1..Len(st.cur) : st.cur[j] = i
        THEN [st.arr[i] EXCEPT !._depth = Absent,
                               !.parent = IF @ = NoneV THEN Absent ELSE @]
        ELSE st.arr[i]]]

\* steps 3-9 of post_process_mindmap, from a state with a root
normalize(st, c) ==
    LET s2 == build_children(limit_nodes(st, c))
    IN  IF s2.raised THEN s2
        ELSE LET s4 == prune_depth_examples(assign_depths(prune_orphans(s2)), c)
             IN  IF s4.raised THEN s4
                 ELSE LET s6 == balance_directions(color_by_depth(assign_depths(s4)))
                      IN  IF s6.raised THEN s6
                          ELSE cleanup(ensure_root_loc(s6))

\* where the node bound to `root` stands in the returned list, 0 if it is
\* not in it
RootPos(st) ==
    IF \E j \in 1..Len(st.cur) : st.cur[j] = st.root
    THEN CHOOSE j \in 1..Len(st.cur) : st.cur[j] = st.root
    ELSE 0

\* the working state at the return statement the call leaves through
run(d, c) ==
    LET s1 == find_root(enforce_class(frame(d)))
    IN  IF s1.raised \/ s1.root = 0 THEN s1 ELSE normalize(s1, c)

\* one call: the value it returns, the return statement it leaves through
\* (the two early `return data` before the class default, the one for a
\* missing root, the one of the except clause, the one that ends the
\* function) and where the root stands in the returned list
call(d, c) ==
    IF no_tree(d) THEN [value |-> d, ret |-> "unchanged", rootAt |-> 0]
    ELSE LET s == run(d, c)
         IN  [ value |-> result(s),
               ret |-> IF s.raised THEN "error"
                       ELSE IF s.root = 0 THEN "no_root" ELSE "normalized",
               rootAt |-> RootPos(s) ]

post_process_mindmap(d, c) == call(d, c).value

----------------------------------------------------------------------------
(* The inputs the calls are checked on *)

MaxLen == 3     \* longest node array
MaxKey == 2     \* node keys are 0..MaxKey

Keys == 0..MaxKey

\* "Top" and "E.g": a plain label and one that holds a keyword once lowered
Texts == { <<84, 111, 112>>, <<69, 46, 103>> }

DictNodes ==
    [ isdict : {TRUE}, key : Keys,
      parent : Keys \cup {NoneV, Absent}, text : Texts,
      brush : {NoStr}, dir : {NoStr}, loc : {NoStr}, _depth : {Absent} ]

\* dicts without a key: a root, and a child of key 0
KeylessNodes ==
    [ isdict : {TRUE}, key : {NoneV},
      parent : {Absent, 0}, text : { <<84, 111, 112>> },
      brush : {NoStr}, dir : {NoStr}, loc : {NoStr}, _depth : {Absent} ]

\* an entry of the node array that is not a dict (a string, a number)
NonDict ==
    [ isdict |-> FALSE, key |-> NoneV, parent |-> Absent, text |-> <<>>,
      brush |-> NoStr, dir |-> NoStr, loc |-> NoStr, _depth |-> Absent ]

\* a dict whose key is a list
BadKey ==
    [ isdict |-> TRUE, key |-> Unhashable, parent |-> 0, text |-> <<>>,
      brush |-> NoStr, dir |-> NoStr, loc |-> NoStr, _depth |-> Absent ]

Nodes == DictNodes \cup KeylessNodes \cup {NonDict, BadKey}

NodeArrays == UNION { [1..n -> Nodes] : n \in 0..MaxLen }

\* the node arrays tried under a class tag of the caller's own
TaggedArrays == UNION { [1..n -> Nodes] : n \in 0..(MaxLen - 1) }

\* a value that is not a dict; a dict without nodeDataArray; a dict whose
\* nodeDataArray is not a list; dicts with a node list
NotADict == [ mapping |-> FALSE, class |-> NoStr, array |-> "missing", nodes |-> <<>> ]

Inputs ==
    {NotADict}
    \cup [ mapping : {TRUE}, class : {NoStr, "go.TreeModel"},
           array : {"missing", "other"}, nodes : {<<>>} ]
    \cup [ mapping : {TRUE}, class : {NoStr},
           array : {"list"}, nodes : NodeArrays ]
    \cup [ mapping : {TRUE}, class : {"go.GraphLinksModel"},
           array : {"list"}, nodes : TaggedArrays ]

Configs ==
    [ MINDMAP_MAX_NODES : (MaxLen - 1)..MaxLen,
      MINDMAP_MAX_DEPTH : {-1, 1},
      MINDMAP_EXCLUDE_EXAMPLES : BOOLEAN ]

----------------------------------------------------------------------------
(* The calls *)

\* no call of post_process_mindmap has been made yet
FreshPP ==
    /\ out = NotADict
    /\ ret = "none"
    /\ rootAt = 0
    /\ again = NotADict

\* the run does not call post_process_mindmap
IdlePP ==
    /\ data = NotADict
    /\ FreshPP
    /\ pc = "off"

\* generate has produced nothing yet
FreshGen ==
    /\ chunks = 0
    /\ replies = <<>>
    /\ merged = NotADict
    /\ generated = NotADict

\* the run does not call generate
IdleGen ==
    /\ FreshGen
    /\ partial_maps = <<>>
    /\ gpc = "off"

\* the run does not call _chunk_text
IdleCut ==
    /\ text = <<>>
    /\ size = 0
    /\ overlap = 0
    /\ start = 0
    /\ windows = <<>>
    /\ cpc = "off"

\* clean_and_parse_json is not called
IdleParse ==
    /\ response = [none |-> TRUE, text |-> <<>>, json |-> <<>>, wrap |-> "bare"]
    /\ cleaned_text = <<>>
    /\ tried = <<>>
    /\ parsed = [ok |-> FALSE, val |-> <<>>]
    /\ jpc = "off"

Init ==
    /\ cfg \in Configs
    /\ data \in Inputs
    /\ FreshPP
    /\ pc = "start"
    /\ IdleGen
    /\ IdleCut
    /\ IdleParse

\* out = post_process_mindmap(data)
Normalize ==
    /\ pc = "start"
    /\ LET r == call(data, cfg)
       IN  /\ out' = r.value
           /\ ret' = r.ret
           /\ rootAt' = r.rootAt
    /\ pc' = "done"
    /\ UNCHANGED <<cfg, parseVars, data, again, genVars, cutVars>>

\* again = post_process_mindmap(out)
Renormalize ==
    /\ pc = "done"
    /\ again' = post_process_mindmap(out, cfg)
    /\ pc' = "redone"
    /\ UNCHANGED <<cfg, parseVars, data, out, ret, rootAt, genVars, cutVars>>

Next == Normalize \/ Renormalize

Spec == Init /\ [][Next]_vars

----------------------------------------------------------------------------
(* post_process_mindmap under the default settings, on stars of branches *)

\* the defaults of Settings
Settings ==
    [ MINDMAP_MAX_NODES |-> 120, MINDMAP_MAX_DEPTH |-> 3,
      MINDMAP_EXCLUDE_EXAMPLES |-> TRUE,
      MINDMAP_DEDUPLICATE_NODES |-> TRUE, MINDMAP_MULTI_PASS |-> TRUE ]

MaxBranches == 8

\* the subtree weights tried: any number of 1, at most two of 3 and 10
BranchWeights ==
    { ws \in UNION { [1..n -> {1, 3, 10}] : n \in 1..MaxBranches } :
        Cardinality({ b \in 1..Len(ws) : ws[b] > 1 }) <= 2 }

RECURSIVE LeavesBefore(_, _)
LeavesBefore(ws, b) ==
    IF b = 1 THEN 0 ELSE LeavesBefore(ws, b - 1) + ws[b - 1] - 1

\* a node as the callers store it: { key, text, parent? }
PlainNode(k, p) ==
    [ isdict |-> TRUE, key |-> k, parent |-> p, text |-> <<84, 111, 112>>,
      brush |-> NoStr, dir |-> NoStr, loc |-> NoStr, _depth |-> Absent ]

\* the tree whose root (key 0) has one main branch per entry of ws (keys
\* 1..Len(ws)), the branch of weight w having w - 1 children of its own
TreeOf(ws) ==
    LET n == Len(ws)
        total == 1 + n + LeavesBefore(ws, n + 1)
        branchOf(k) == CHOOSE b \in 1..n :
                           /\ n + LeavesBefore(ws, b) < k
                           /\ k <= n + LeavesBefore(ws, b) + ws[b] - 1
    IN  [ mapping |-> TRUE, class |-> NoStr, array |-> "list",
          nodes |-> [ i \in 1..total |->
                        IF i = 1 THEN PlainNode(0, Absent)
                        ELSE IF i <= n + 1 THEN PlainNode(i - 1, 0)
                        ELSE PlainNode(i - 1, branchOf(i - 1)) ] ]

InitBalance ==
    /\ cfg = Settings
    /\ data \in { TreeOf(ws) : ws \in BranchWeights }
    /\ FreshPP
    /\ pc = "start"
    /\ IdleGen
    /\ IdleCut
    /\ IdleParse

SpecBalance == InitBalance /\ [][Next]_vars

----------------------------------------------------------------------------
(* post_process_mindmap on nodes that already carry brush, dir and loc *)

MaxDecorated == 3

\* nodes as an earlier run or an editor left them: with or without a
\* colour and a side, without loc, with an empty loc, with a loc
DecoratedNodes ==
    { [ isdict |-> TRUE, key |-> k, parent |-> p, text |-> <<84, 111, 112>>,
        brush |-> paint[1], dir |-> paint[2], loc |-> l, _depth |-> Absent ] :
      k \in 0..1, p \in {Absent, 0, 1},
      paint \in { <<NoStr, NoStr>>, <<"red", "left">> },
      l \in { NoStr, "", "5 5" } }

DecoratedInputs ==
    [ mapping : {TRUE}, class : {NoStr}, array : {"list"},
      nodes : UNION { [1..n -> DecoratedNodes] : n \in 1..MaxDecorated } ]

InitFields ==
    /\ cfg = Settings
    /\ data \in DecoratedInputs
    /\ FreshPP
    /\ pc = "start"
    /\ IdleGen
    /\ IdleCut
    /\ IdleParse

SpecFields == InitFields /\ [][Next]_vars

----------------------------------------------------------------------------
(* MindMapTemplate (template/mindmap_template.py).  A non-dict value keeps *)
(* two facts in the record that stands for it: array # "missing" says      *)
(* that `"nodeDataArray" in value` is true, class # NoStr that             *)
(* `"class" in value` is.                                                   *)

\* if not n.get("brush"): n["brush"] = colors[depth]
color_missing(st) ==
    [st EXCEPT !.arr = [i \in 1..Len(st.arr) |->
        IF (\E j \in 1..Len(st.cur) : st.cur[j] = i)
           /\ st.arr[i].brush \in {NoStr, NoneStr, ""}
        THEN LET d == IF st.arr[i]._depth = Absent THEN 0 ELSE st.arr[i]._depth
             IN  [st.arr[i] EXCEPT
                    !.brush = MINDMAP_COLORS[Max(0, Min(d, Len(MINDMAP_COLORS) - 1)) + 1]]
        ELSE st.arr[i]]]

\* sorted(main_branches, key=lambda x: x.get("key", 0)): stable, ascending
RECURSIVE sort_by_key(_, _)
sort_by_key(arr, b) ==
    IF b = <<>> THEN <<>>
    ELSE LET x == b[Len(b)]
             s == sort_by_key(arr, SubSeq(b, 1, Len(b) - 1))
             before == SelectSeq(s, LAMBDA y : arr[y].key <= arr[x].key)
             after == SelectSeq(s, LAMBDA y : arr[y].key > arr[x].key)
         IN  before \o <<x>> \o after

\* the main branches, in key order, get "right" and "left" in turn
alternate_dirs(st) ==
    LET sorted == sort_by_key(st.arr, children(st.arr, st.cur, st.arr[st.root].key))
    IN  [st EXCEPT !.arr = [i \in 1..Len(st.arr) |->
            IF \E idx \in 1..Len(sorted) : sorted[idx] = i
            THEN LET idx == CHOOSE idx \in 1..Len(sorted) : sorted[idx] = i
                 IN  [st.arr[i] EXCEPT
                        !.dir = IF (idx - 1) % 2 = 0 THEN "right" ELSE "left"]
            ELSE st.arr[i]]]

\* if "_depth" in n: del n["_depth"]
drop_depth(st) ==
    [st EXCEPT !.arr = [i \in 1..Len(st.arr) |->
        IF \E j \in 1..Len(st.cur) : st.cur[j] = i
        THEN [st.arr[i] EXCEPT !._depth = Absent]
        ELSE st.arr[i]]]

\* MindMapTemplate._post_process_mindmap: the class default, the root
\* search, the truncation and the depth walk are, line for line, those of
\* utils.post_process_mindmap; no node is pruned
_post_process_mindmap(d, c) ==
    IF no_tree(d) THEN d
    ELSE LET s1 == find_root(enforce_class(frame(d)))
         IN  IF s1.raised \/ s1.root = 0 THEN result(s1)
             ELSE LET s2 == build_children(limit_nodes(s1, c))
                  IN  IF s2.raised THEN result(s2)
                      ELSE result(drop_depth(ensure_root_loc(
                               alternate_dirs(color_missing(assign_depths(s2))))))

\* a node array without nodes in the place of the placeholder
FallbackMap_empty ==
    [ mapping |-> TRUE, class |-> "go.TreeModel", array |-> "list", nodes |-> <<>> ]

\* the tree _generate_single_pass returns from its except clause (English)
FallbackMap ==
    [ mapping |-> TRUE, class |-> "go.TreeModel", array |-> "list",
      nodes |-> <<
        [ isdict |-> TRUE, key |-> 0, parent |-> Absent,
          text |-> <<69, 100, 117, 99, 97, 116, 105, 111, 110, 97, 108, 32,
                     67, 111, 110, 116, 101, 110, 116>>,
          brush |-> NoStr, dir |-> NoStr, loc |-> "0 0", _depth |-> Absent ],
        [ isdict |-> TRUE, key |-> 1, parent |-> 0,
          text |-> <<77, 97, 105, 110, 32, 80, 111, 105, 110, 116>>,
          brush |-> "skyblue", dir |-> "right", loc |-> NoStr, _depth |-> Absent ] >> ]

\* a failure answered with a value that is no tree
_generate_single_pass_sentinel(reply, c) ==
    IF reply.failed THEN [ mapping |-> FALSE, class |-> NoStr, array |-> "missing", nodes |-> <<>> ]
    ELSE LET d == _post_process_mindmap(reply.value, c)
         IN  IF d.array = "missing" \/ (d.class = NoStr /\ ~d.mapping)
             THEN [ mapping |-> FALSE, class |-> NoStr, array |-> "missing", nodes |-> <<>> ]
             ELSE IF d.class # NoStr THEN d
             ELSE [d EXCEPT !.class = "go.TreeModel"]

\* _generate_single_pass from the model's reply on: reply.failed says that
\* the chain or clean_and_parse_json raised, reply.value is the parsed value
_generate_single_pass(reply, c) ==
    IF reply.failed THEN FallbackMap
    ELSE LET d == _post_process_mindmap(reply.value, c)
         IN  IF d.array = "missing" THEN FallbackMap
             ELSE IF d.class # NoStr THEN d
             ELSE IF d.mapping THEN [d EXCEPT !.class = "go.TreeModel"]
             ELSE FallbackMap

\* re.sub(r"\s+", " ", s)
RECURSIVE collapse(_)
collapse(s) ==
    IF s = <<>> THEN <<>>
    ELSE IF Head(s) \in Whitespace THEN <<32>> \o collapse(lstrip(s))
    ELSE <<Head(s)>> \o collapse(Tail(s))

\* the text compared as it stands
norm_text_exact(t) == t

\* norm_text(t)
norm_text(t) ==
    LET s == rstrip(lstrip(collapse(t)))
    IN  [i \in 1..Len(s) |-> lower(s[i])]

\* str(n) for n >= 0
RECURSIVE digits(_)
digits(n) == IF n < 10 THEN <<48 + n>> ELSE digits(n \div 10) \o <<48 + (n % 10)>>

\* the synthetic root of _merge_mindmaps (English)
synthetic_root ==
    [ isdict |-> TRUE, key |-> 0, parent |-> Absent,
      text |-> <<67, 111, 109, 112, 114, 101, 104, 101, 110, 115, 105, 118, 101,
                 32, 77, 105, 110, 100, 32, 77, 97, 112>>,
      brush |-> MINDMAP_COLORS[1], dir |-> NoStr, loc |-> "0 0", _depth |-> Absent ]

\* the walk with every copy left under the key it has in its own map
RECURSIVE merge_walk_keeping_keys(_, _, _, _, _)
merge_walk_keeping_keys(m, nodes, root, stack, c) ==
    IF stack = <<>> \/ m.err # "" THEN m
    ELSE LET top == stack[Len(stack)]
             rest == SubSeq(stack, 1, Len(stack) - 1)
             orig_node == nodes[top.node]
             chs == children(nodes, [i \in 1..Len(nodes) |-> i], Get(orig_node.key))
             pushed(np) == [i \in 1..Len(chs) |->
                 [node |-> chs[i], new_parent |-> np, depth |-> top.depth + 1]]
             new_key == Get(orig_node.key)
             new_node ==
                 [ isdict |-> TRUE, key |-> new_key, parent |-> top.new_parent,
                   text |-> orig_node.text,
                   brush |-> IF orig_node.brush = NoStr THEN NoneStr ELSE orig_node.brush,
                   dir |-> IF orig_node.dir = NoStr THEN NoneStr ELSE orig_node.dir,
                   loc |-> NoStr, _depth |-> Absent ]
             parent_text_key == <<top.new_parent, norm_text(orig_node.text)>>
         IN  IF top.depth > Len(nodes) THEN [m EXCEPT !.err = "hung"]
             ELSE IF top.node = root
             THEN merge_walk_keeping_keys(m, nodes, root, rest \o pushed(top.new_parent), c)
             ELSE IF c.MINDMAP_DEDUPLICATE_NODES /\ parent_text_key \in m.seen
             THEN merge_walk_keeping_keys([m EXCEPT !.next_key = @ + 1], nodes, root, rest, c)
             ELSE IF orig_node.key = Unhashable THEN [m EXCEPT !.err = "raised"]
             ELSE merge_walk_keeping_keys([m EXCEPT !.next_key = @ + 1,
                                       !.nodes = Append(@, new_node),
                                       !.seen = @ \cup {parent_text_key}],
                             nodes, root, rest \o pushed(new_key), c)

\* the stack walk that copies one map's nodes under its branch.
\*   m      [nodes, next_key, seen, err]: merged_nodes, next_key,
\*          seen_by_parent_text and how the walk ended
\*   stack  entries [node, new_parent, depth]; `depth` is not in the code:
\*          an entry deeper than the map is long lies on a cycle of child
\*          links, and the walk then pushes fresh keys for ever ("hung")
RECURSIVE merge_walk(_, _, _, _, _)
merge_walk(m, nodes, root, stack, c) ==
    IF stack = <<>> \/ m.err # "" THEN m
    ELSE LET top == stack[Len(stack)]
             rest == SubSeq(stack, 1, Len(stack) - 1)
             orig_node == nodes[top.node]
             chs == children(nodes, [i \in 1..Len(nodes) |-> i], Get(orig_node.key))
             pushed(np) == [i \in 1..Len(chs) |->
                 [node |-> chs[i], new_parent |-> np, depth |-> top.depth + 1]]
             new_key == m.next_key
             new_node ==
                 [ isdict |-> TRUE, key |-> new_key, parent |-> top.new_parent,
                   text |-> orig_node.text,
                   brush |-> IF orig_node.brush = NoStr THEN NoneStr ELSE orig_node.brush,
                   dir |-> IF orig_node.dir = NoStr THEN NoneStr ELSE orig_node.dir,
                   loc |-> NoStr, _depth |-> Absent ]
             parent_text_key == <<top.new_parent, norm_text(orig_node.text)>>
         IN  IF top.depth > Len(nodes) THEN [m EXCEPT !.err = "hung"]
             ELSE IF top.node = root
             THEN merge_walk(m, nodes, root, rest \o pushed(top.new_parent), c)
             ELSE IF c.MINDMAP_DEDUPLICATE_NODES /\ parent_text_key \in m.seen
             THEN merge_walk([m EXCEPT !.next_key = @ + 1], nodes, root, rest, c)
             ELSE IF orig_node.key = Unhashable THEN [m EXCEPT !.err = "raised"]
             ELSE merge_walk([m EXCEPT !.next_key = @ + 1,
                                       !.nodes = Append(@, new_node),
                                       !.seen = @ \cup {parent_text_key}],
                             nodes, root, rest \o pushed(new_key), c)

\* one round of the loop `for idx, m in enumerate(maps)` (idx from 0)
merge_map(m, idx, map, c) ==
    IF m.err # "" \/ ~map.mapping \/ map.array # "list" \/ map.nodes = <<>> THEN m
    ELSE LET nodes == map.nodes
             parentless == {i \in 1..Len(nodes) : Get(nodes[i].parent) = NoneV}
         IN  IF parentless = {} THEN m
             ELSE LET root == CHOOSE i \in parentless : \A j \in parentless : i <= j
                      branch_key == m.next_key
                      chunk_title == IF nodes[root].text = <<>>
                                     THEN <<67, 104, 117, 110, 107, 32>> \o digits(idx + 1)
                                     ELSE nodes[root].text
                      branch ==
                          [ isdict |-> TRUE, key |-> branch_key, parent |-> 0,
                            text |-> chunk_title, brush |-> MINDMAP_COLORS[2],
                            dir |-> IF idx % 2 = 0 THEN "right" ELSE "left",
                            loc |-> NoStr, _depth |-> Absent ]
                      title_key == <<0, norm_text(chunk_title)>>
                      fresh == title_key \notin m.seen \/ ~c.MINDMAP_DEDUPLICATE_NODES
                      m1 == [m EXCEPT !.next_key = @ + 1,
                                      !.nodes = IF fresh THEN Append(@, branch) ELSE @,
                                      !.seen = IF fresh THEN @ \cup {title_key} ELSE @]
                  IN  merge_walk(m1, nodes, root,
                                 << [node |-> root, new_parent |-> branch_key, depth |-> 0] >>, c)

RECURSIVE merge_maps(_, _, _, _)
merge_maps(m, maps, idx, c) ==
    IF idx >= Len(maps) THEN m
    ELSE merge_maps(merge_map(m, idx, maps[idx + 1], c), maps, idx + 1, c)

\* _merge_mindmaps(maps): [tree, err]; err is "" when it returns `tree`,
\* "raised" when an exception leaves it, "hung" when it never returns
_merge_mindmaps(maps, c) ==
    LET lists == {i \in 1..Len(maps) : maps[i].mapping /\ maps[i].array = "list"}
        empty == [ mapping |-> TRUE, class |-> "go.TreeModel", array |-> "list",
                   nodes |-> <<>> ]
    IN  IF \A i \in lists : \A j \in 1..Len(maps[i].nodes) : ~maps[i].nodes[j].isdict
        THEN [tree |-> empty, err |-> ""]
        ELSE IF \E i \in lists : \E j \in 1..Len(maps[i].nodes) : ~maps[i].nodes[j].isdict
        THEN [tree |-> empty, err |-> "raised"]
        ELSE LET m == merge_maps([ nodes |-> <<synthetic_root>>, next_key |-> 1,
                                   seen |-> {}, err |-> "" ], maps, 0, c)
                 merged_nodes == IF Len(m.nodes) > c.MINDMAP_MAX_NODES
                                 THEN prefix(m.nodes, c.MINDMAP_MAX_NODES)
                                 ELSE m.nodes
             IN  [tree |-> [empty EXCEPT !.nodes = merged_nodes], err |-> m.err]

----------------------------------------------------------------------------
(* MindMapTemplate.generate *)

MaxReply == 2    \* longest node array in a reply of the model
MaxChunks == 2   \* most chunks of one content

ReplyKeys == 0..(MaxReply - 1)

\* the nodes of a reply: dicts with an integer key, an entry that is not a
\* dict, a dict with a list as key
ReplyNodes ==
    [ isdict : {TRUE}, key : ReplyKeys,
      parent : ReplyKeys \cup {Absent}, text : Texts,
      brush : {NoStr}, dir : {NoStr}, loc : {NoStr}, _depth : {Absent} ]
    \cup {NonDict, BadKey}

\* what the chain and clean_and_parse_json hand over: a failure, a value
\* that is no dict, a dict without a node list, a dict with one
Replies ==
    { [failed |-> TRUE, value |-> NotADict] }
    \cup [ failed : {FALSE},
           value : [ mapping : BOOLEAN, class : {NoStr, "go.TreeModel"},
                     array : {"missing", "other"}, nodes : {<<>>} ] ]
    \cup [ failed : {FALSE},
           value : [ mapping : {TRUE}, class : {NoStr}, array : {"list"},
                     nodes : UNION { [1..n -> ReplyNodes] : n \in 0..MaxReply } ] ]

GenConfigs ==
    [ MINDMAP_MAX_NODES : {MaxReply + 1, MaxReply * MaxChunks + 2},
      MINDMAP_MAX_DEPTH : {-1, 1},
      MINDMAP_EXCLUDE_EXAMPLES : {TRUE},
      MINDMAP_DEDUPLICATE_NODES : BOOLEAN,
      MINDMAP_MULTI_PASS : BOOLEAN ]

InitGen ==
    /\ cfg \in GenConfigs
    /\ IdlePP
    /\ FreshGen
    /\ partial_maps = <<>>
    /\ gpc = "start"
    /\ IdleCut
    /\ IdleParse

\* validate_input raises ValueError on an empty content
RejectContent ==
    /\ gpc = "start"
    /\ gpc' = "raised"
    /\ UNCHANGED <<cfg, parseVars, ppVars, cutVars, chunks, replies, partial_maps, merged, generated>>

\* the content is not longer than a chunk, or multi-pass is off
StartSinglePass ==
    /\ gpc = "start"
    /\ gpc' = "single"
    /\ UNCHANGED <<cfg, parseVars, ppVars, cutVars, chunks, replies, partial_maps, merged, generated>>

\* multi-pass is on and the content is longer than a chunk: _chunk_text
\* cuts it into chunks
StartMultiPass ==
    /\ gpc = "start"
    /\ cfg.MINDMAP_MULTI_PASS
    /\ \E n \in 1..MaxChunks : chunks' = n
    /\ gpc' = "multi"
    /\ UNCHANGED <<cfg, parseVars, ppVars, cutVars, replies, partial_maps, merged, generated>>

\* return self._generate_single_pass(content)
GenerateSinglePass ==
    /\ gpc = "single"
    /\ \E reply \in Replies :
           /\ replies' = <<reply>>
           /\ generated' = _generate_single_pass(reply, cfg)
    /\ gpc' = "returned"
    /\ UNCHANGED <<cfg, parseVars, ppVars, cutVars, chunks, partial_maps, merged>>

\* partial_maps.append(self._generate_single_pass(ch))
GenerateChunk ==
    /\ gpc = "multi"
    /\ chunks > 0
    /\ \E reply \in Replies :
           /\ replies' = Append(replies, reply)
           /\ partial_maps' = Append(partial_maps, _generate_single_pass(reply, cfg))
    /\ chunks' = chunks - 1
    /\ UNCHANGED <<cfg, parseVars, ppVars, cutVars, merged, generated, gpc>>

\* merged = self._merge_mindmaps(partial_maps);
\* return self._post_process_mindmap(merged)
MergeChunks ==
    /\ gpc = "multi"
    /\ chunks = 0
    /\ LET m == _merge_mindmaps(partial_maps, cfg)
       IN  IF m.err # ""
           THEN /\ gpc' = m.err
                /\ UNCHANGED <<merged, generated>>
           ELSE /\ merged' = m.tree
                /\ generated' = _post_process_mindmap(m.tree, cfg)
                /\ gpc' = "returned"
    /\ UNCHANGED <<cfg, parseVars, ppVars, cutVars, chunks, replies, partial_maps>>

NextGen ==
    \/ RejectContent
    \/ StartSinglePass
    \/ StartMultiPass
    \/ GenerateSinglePass
    \/ GenerateChunk
    \/ MergeChunks

SpecGen == InitGen /\ [][NextGen]_vars

----------------------------------------------------------------------------
(* _merge_mindmaps on its own *)

MaxTree == 3       \* longest node array of one map
MaxMaps == 2       \* most maps in one call
MaxMergeNodes == 4 \* most nodes in all the maps of one call

\* the nodes of the maps: parentless ones with and without text, others
\* with texts that differ in case and spacing only ("Top", "top ")
MergeNodes ==
    { PlainNode(k, Absent) : k \in 0..1 }
    \cup { [PlainNode(k, Absent) EXCEPT !.text = <<>>] : k \in 0..1 }
    \cup { [PlainNode(k, p) EXCEPT !.text = t] :
             k \in 1..2, p \in 0..1, t \in { <<84, 111, 112>>, <<116, 111, 112, 32>> } }

\* the maps with n nodes
MergeTrees(n) ==
    [ mapping : {TRUE}, class : {NoStr}, array : {"list"},
      nodes : [1..n -> MergeNodes] ]

MergeConfigs ==
    [ MINDMAP_MAX_NODES : {MaxMergeNodes, Settings.MINDMAP_MAX_NODES},
      MINDMAP_MAX_DEPTH : {Settings.MINDMAP_MAX_DEPTH},
      MINDMAP_EXCLUDE_EXAMPLES : {TRUE},
      MINDMAP_DEDUPLICATE_NODES : BOOLEAN,
      MINDMAP_MULTI_PASS : {TRUE} ]

\* the nodes in all the maps of the list
RECURSIVE NodesIn(_)
NodesIn(maps) ==
    IF maps = <<>> THEN 0 ELSE Len(Head(maps).nodes) + NodesIn(Tail(maps))

InitMerge ==
    /\ cfg \in MergeConfigs
    /\ IdlePP
    /\ FreshGen
    /\ partial_maps = <<>>
    /\ gpc = "collect"
    /\ IdleCut
    /\ IdleParse

\* the caller puts one more map on the list it will pass
CollectMap ==
    /\ gpc = "collect"
    /\ Len(partial_maps) < MaxMaps
    /\ \E n \in 0..Min(MaxTree, MaxMergeNodes - NodesIn(partial_maps)) :
           \E t \in MergeTrees(n) : partial_maps' = Append(partial_maps, t)
    /\ UNCHANGED <<cfg, parseVars, ppVars, cutVars, chunks, replies, merged, generated, gpc>>

\* merged = self._merge_mindmaps(partial_maps)
MergeMaps ==
    /\ gpc = "collect"
    /\ partial_maps # <<>>
    /\ LET m == _merge_mindmaps(partial_maps, cfg)
       IN  IF m.err # ""
           THEN /\ gpc' = m.err
                /\ UNCHANGED merged
           ELSE /\ merged' = m.tree
                /\ gpc' = "merged"
    /\ UNCHANGED <<cfg, parseVars, ppVars, cutVars, chunks, replies, partial_maps, generated>>

NextMerge == CollectMap \/ MergeMaps

SpecMerge == InitMerge /\ [][NextMerge]_vars

----------------------------------------------------------------------------
(* MindMapTemplate._chunk_text, one round of its loop per step *)

MaxText == 6      \* longest text
MaxSize == 4      \* largest size
MaxWindows == 8   \* rounds of the loop followed before the model stops

\* a letter, a full stop, a blank
Alphabet == {97, 46, 32}

\* s.rfind(ch): the last place of ch in s, counted from 0, or -1
rfind(s, ch) ==
    LET at == { i \in 1..Len(s) : s[i] = ch }
    IN  IF at = {} THEN -1 ELSE (CHOOSE i \in at : \A j \in at : j <= i) - 1

\* the end of the window that starts at st: start + size or the end of the
\* text, pulled back to just after the last '.', '!', '?' or newline of the
\* window when that lies beyond 60% of size
window_end(txt, sz, st) ==
    LET n == Len(txt)
        end == Min(n, st + sz)
        window == SubSeq(txt, st + 1, end)
        last_period == Max(Max(rfind(window, 46), rfind(window, 33)),
                           Max(rfind(window, 63), rfind(window, 10)))
    IN  IF last_period # -1 /\ 10 * ((st + last_period + 1) - st) > 6 * sz
        THEN st + last_period + 1
        ELSE end

\* the next start with a negative overlap taken as it comes
next_start_unclamped(end, ov) == Max(0, end - ov)

\* start = max(0, end - max(0, overlap))
next_start(end, ov) == Max(0, end - Max(0, ov))

\* the list the function returns: [text] for a size <= 0, else the chunks
\* that are not empty
chunks_of(sz, ws) ==
    LET kept == IF sz <= 0 THEN ws ELSE SelectSeq(ws, LAMBDA w : w.chunk # <<>>)
    IN  [i \in 1..Len(kept) |-> kept[i].chunk]

InitChunk ==
    /\ cfg = Settings
    /\ IdlePP
    /\ IdleGen
    /\ IdleParse
    /\ text \in UNION { [1..n -> Alphabet] : n \in 0..MaxText }
    /\ size \in 0..MaxSize
    /\ overlap \in -1..(MaxSize + 1)
    /\ start = 0
    /\ windows = <<>>
    /\ cpc = "loop"

\* if size <= 0: return [text]
ReturnWhole ==
    /\ cpc = "loop"
    /\ size <= 0
    /\ windows' = << [start |-> 0, end |-> Len(text), chunk |-> text] >>
    /\ cpc' = "returned"
    /\ UNCHANGED <<cfg, parseVars, ppVars, genVars, text, size, overlap, start>>

\* while start < n fails: return chunks
LeaveLoop ==
    /\ cpc = "loop"
    /\ size > 0
    /\ start >= Len(text)
    /\ cpc' = "returned"
    /\ UNCHANGED <<cfg, parseVars, ppVars, genVars, text, size, overlap, start, windows>>

\* one round of the loop
CutWindow ==
    /\ cpc = "loop"
    /\ size > 0
    /\ start < Len(text)
    /\ Len(windows) < MaxWindows
    /\ LET end == window_end(text, size, start)
           chunk == rstrip(lstrip(SubSeq(text, start + 1, end)))
       IN  /\ windows' = Append(windows, [start |-> start, end |-> end, chunk |-> chunk])
           /\ IF end >= Len(text)
              THEN cpc' = "returned" /\ UNCHANGED start
              ELSE cpc' = "loop" /\ start' = next_start(end, overlap)
    /\ UNCHANGED <<cfg, parseVars, ppVars, genVars, text, size, overlap>>

NextChunk == ReturnWhole \/ LeaveLoop \/ CutWindow

SpecChunk == InitChunk /\ [][NextChunk]_vars

----------------------------------------------------------------------------
(* MindMapTemplate.clean_and_parse_json.  A text is a sequence of code     *)
(* points.  A value json.loads returns is kept as its JSON text without    *)
(* the whitespace between the tokens: two values are equal when these      *)
(* texts are (no text tried here repeats a key within one object or holds  *)
(* a backslash, a fraction or an exponent).                                *)

JsonWs == {32, 9, 10, 13}     \* what the json scanner skips between tokens
JsonDigits == 48..57

Fence == <<96, 96, 96>>                          \* ```
FenceJson == <<96, 96, 96, 106, 115, 111, 110>>  \* ```json

\* t[i - 1], or -1 beyond the ends of t
at(t, i) == IF i >= 1 /\ i <= Len(t) THEN t[i] ELSE -1

\* t.startswith(pat, i - 1)
starts_with(t, i, pat) ==
    /\ i + Len(pat) - 1 <= Len(t)
    /\ SubSeq(t, i, i + Len(pat) - 1) = pat

\* the first place from i on that holds no character of set
RECURSIVE skip(_, _, _)
skip(t, i, set) ==
    IF i <= Len(t) /\ t[i] \in set THEN skip(t, i + 1, set) ELSE i

\* s.find(ch): the first place of ch in s, counted from 0, or -1
find(s, ch) ==
    LET places == { i \in 1..Len(s) : s[i] = ch }
    IN  IF places = {} THEN -1 ELSE (CHOOSE i \in places : \A j \in places : i <= j) - 1

\* s.strip()
strip(s) == rstrip(lstrip(s))

\* the scanner found no value
NoParse == [ok |-> FALSE, pos |-> 0, val |-> <<>>]

\* json.decoder.scanstring (strict): t[i - 1] is the opening quote; the
\* string runs to the next quote, and a control character in it is an error
parse_string(t, i) ==
    LET stop == skip(t, i + 1, (32..127) \ {34, 92})
    IN  IF at(t, stop) = 34
        THEN [ok |-> TRUE, pos |-> stop + 1, val |-> SubSeq(t, i, stop)]
        ELSE NoParse

\* true, false, null and the integers
parse_plain(t, i) ==
    LET words == { <<116, 114, 117, 101>>, <<102, 97, 108, 115, 101>>,
                   <<110, 117, 108, 108>> }
        stop == skip(t, i, JsonDigits)
    IN  IF \E w \in words : starts_with(t, i, w)
        THEN LET w == CHOOSE w \in words : starts_with(t, i, w)
             IN  [ok |-> TRUE, pos |-> i + Len(w), val |-> w]
        ELSE IF at(t, i) = 48
        THEN [ok |-> TRUE, pos |-> i + 1, val |-> <<48>>]
        ELSE IF stop > i
        THEN [ok |-> TRUE, pos |-> stop, val |-> SubSeq(t, i, stop - 1)]
        ELSE NoParse

RECURSIVE parse_value(_, _)
RECURSIVE array_items(_, _, _)
RECURSIVE object_members(_, _, _)

\* json.decoder.JSONArray after the first value's place is found: a value,
\* then "," and the next value, or "]"
array_items(t, i, acc) ==
    LET v == parse_value(t, i)
        e == skip(t, v.pos, JsonWs)
    IN  IF ~v.ok THEN NoParse
        ELSE IF at(t, e) = 93
        THEN [ok |-> TRUE, pos |-> e + 1, val |-> acc \o v.val \o <<93>>]
        ELSE IF at(t, e) = 44
        THEN array_items(t, skip(t, e + 1, JsonWs), acc \o v.val \o <<44>>)
        ELSE NoParse

\* json.decoder.JSONObject after the first key's place is found: a string,
\* ":", a value, then "," and the next member, or "}"
object_members(t, i, acc) ==
    LET k == parse_string(t, i)
        c == skip(t, k.pos, JsonWs)
        v == parse_value(t, skip(t, c + 1, JsonWs))
        e == skip(t, v.pos, JsonWs)
        member == acc \o k.val \o <<58>> \o v.val
    IN  IF at(t, i) # 34 \/ ~k.ok \/ at(t, c) # 58 THEN NoParse
        ELSE IF ~v.ok THEN NoParse
        ELSE IF at(t, e) = 125
        THEN [ok |-> TRUE, pos |-> e + 1, val |-> member \o <<125>>]
        ELSE IF at(t, e) = 44
        THEN object_members(t, skip(t, e + 1, JsonWs), member \o <<44>>)
        ELSE NoParse

\* json.scanner.py_make_scanner._scan_once at place i
parse_value(t, i) ==
    LET first == skip(t, i + 1, JsonWs)
    IN  IF at(t, i) = 34 THEN parse_string(t, i)
        ELSE IF at(t, i) = 123
        THEN IF at(t, first) = 125
             THEN [ok |-> TRUE, pos |-> first + 1, val |-> <<123, 125>>]
             ELSE object_members(t, first, <<123>>)
        ELSE IF at(t, i) = 91
        THEN IF at(t, first) = 93
             THEN [ok |-> TRUE, pos |-> first + 1, val |-> <<91, 93>>]
             ELSE array_items(t, first, <<91>>)
        ELSE parse_plain(t, i)

\* json.loads raised JSONDecodeError
NoValue == [ok |-> FALSE, val |-> <<>>]

\* json.loads(t): one value with whitespace around it and nothing else
json_loads(t) ==
    LET r == parse_value(t, skip(t, 1, JsonWs))
    IN  IF r.ok /\ skip(t, r.pos, JsonWs) = Len(t) + 1
        THEN [ok |-> TRUE, val |-> r.val]
        ELSE NoValue

\* re.sub(r'```json\s*', '', t)
RECURSIVE strip_json_fences(_)
strip_json_fences(t) ==
    IF t = <<>> THEN <<>>
    ELSE IF starts_with(t, 1, FenceJson)
    THEN strip_json_fences(SubSeq(t, skip(t, Len(FenceJson) + 1, Whitespace), Len(t)))
    ELSE <<Head(t)>> \o strip_json_fences(Tail(t))

\* re.sub(r'```\s*$', '', t, flags=re.MULTILINE): a fence goes together with
\* the longest run of whitespace after it that stops at the end of the text
\* or in front of a newline
RECURSIVE strip_closing_fences(_)
strip_closing_fences(t) ==
    IF t = <<>> THEN <<>>
    ELSE LET blanks == skip(t, Len(Fence) + 1, Whitespace)
             ends == { k \in (Len(Fence) + 1)..blanks : k = Len(t) + 1 \/ t[k] = 10 }
         IN  IF starts_with(t, 1, Fence) /\ ends # {}
             THEN strip_closing_fences(
                      SubSeq(t, CHOOSE k \in ends : \A j \in ends : j <= k, Len(t)))
             ELSE <<Head(t)>> \o strip_closing_fences(Tail(t))

\* the text from its first "{" to its last "}", the whole text when no "}"
\* follows the first "{": what re.search(r'(\{.*\})', t, re.DOTALL) finds,
\* and what the slice t[t.find('{'):t.rfind('}') + 1] gives
braces_of(t) ==
    LET start_idx == find(t, 123)
        end_idx == rfind(t, 125)
    IN  IF start_idx # -1 /\ end_idx # -1 /\ end_idx > start_idx
        THEN SubSeq(t, start_idx + 1, end_idx + 1)
        ELSE t

\* the text the strategies are called with
clean(t) ==
    braces_of(strip(braces_of(strip_closing_fences(strip_json_fences(t)))))

\* s.replace('  ', ' ')
RECURSIVE replace_two_blanks(_)
replace_two_blanks(s) ==
    IF Len(s) < 2 THEN s
    ELSE IF s[1] = 32 /\ s[2] = 32
    THEN <<32>> \o replace_two_blanks(SubSeq(s, 3, Len(s)))
    ELSE <<Head(s)>> \o replace_two_blanks(Tail(s))

\* text.replace('\n', ' ').replace('\t', ' ').replace('  ', ' ').strip()
common_cleanup(t) ==
    strip(replace_two_blanks([i \in 1..Len(t) |-> IF t[i] \in {10, 9} THEN 32 ELSE t[i]]))

\* json.loads(repair_json(t)) for a text json.loads rejects.  json_repair is
\* a library outside the repository: what it makes of a broken text is one
\* of the outcomes below (text json.loads still rejects; the text closed
\* with the brace, bracket or quote it lacks; the text without the comma in
\* front of its last brace; an empty string for a text with nothing to read)
repaired(t) ==
    LET closed == { t \o c : c \in { <<125>>, <<93>>, <<34, 125>> } }
        trimmed == IF Len(t) >= 2 /\ t[Len(t) - 1] = 44
                   THEN { SubSeq(t, 1, Len(t) - 2) \o <<t[Len(t)]>> }
                   ELSE {}
        read == { json_loads(c) : c \in closed \cup trimmed }
    IN  {NoValue} \cup { r \in read : r.ok } \cup { [ok |-> TRUE, val |-> <<34, 34>>] }

\* the strategies in the order the spec lists them
parsing_strategies_strict_first ==
    << [cleanup |-> FALSE, repair |-> FALSE],
       [cleanup |-> TRUE, repair |-> FALSE],
       [cleanup |-> FALSE, repair |-> TRUE],
       [cleanup |-> TRUE, repair |-> TRUE] >>

\* the list parsing_strategies: json.loads on the text, json.loads on the
\* repaired text, then both once more on the text without newlines and tabs
parsing_strategies ==
    << [cleanup |-> FALSE, repair |-> FALSE],
       [cleanup |-> FALSE, repair |-> TRUE],
       [cleanup |-> TRUE, repair |-> FALSE],
       [cleanup |-> TRUE, repair |-> TRUE] >>

\* what strategy s can hand back for the text t (NoValue: it raised
\* JSONDecodeError or ValueError)
strategy(s, t) ==
    LET arg == IF s.cleanup THEN common_cleanup(t) ELSE t
        strict == json_loads(arg)
    IN  IF ~s.repair \/ strict.ok THEN {strict} ELSE repaired(arg)

MaxNest == 2    \* how deep the arrays and objects of the tried texts nest

\* 1 and "a"
Atoms == { <<49>>, <<34, 97, 34>> }

\* the JSON texts of nesting depth d at most: atoms, [], {}, [v], [a, b]
\* and {"a": v}
RECURSIVE JsonTexts(_)
JsonTexts(d) ==
    IF d = 0 THEN Atoms
    ELSE LET inner == JsonTexts(d - 1)
         IN  inner \cup { <<91, 93>>, <<123, 125>> }
                   \cup { <<91>> \o v \o <<93>> : v \in inner }
                   \cup { <<91>> \o v \o <<44, 32>> \o w \o <<93>> : v, w \in Atoms }
                   \cup { <<123, 34, 97, 34, 58, 32>> \o v \o <<125>> : v \in inner }

\* valid JSON with a newline between its tokens, with two blanks in a
\* string and with a fence marker in a string:
\* {"a":\n1}   {"a": "a  a"}   {"a": "```json a"}
OddTexts ==
    { <<123, 34, 97, 34, 58, 10, 49, 125>>,
      <<123, 34, 97, 34, 58, 32, 34, 97, 32, 32, 97, 34, 125>>,
      <<123, 34, 97, 34, 58, 32, 34>> \o FenceJson \o <<32, 97, 34, 125>> }

\* texts json.loads rejects: the empty text, prose, an object without its
\* closing brace, one with a trailing comma, one with a newline in a string
Malformed ==
    { <<>>, <<110, 111>>,
      <<123, 34, 97, 34, 58, 32, 49>>,
      <<123, 34, 97, 34, 58, 32, 49, 44, 125>>,
      <<123, 34, 97, 34, 58, 32, 34, 97, 10, 97, 34, 125>> }

\* how the model hands its JSON over: bare, in a ```json fence, in prose
wrapped(s, wrap) ==
    IF wrap = "fence" THEN FenceJson \o <<10>> \o s \o <<10>> \o Fence
    ELSE IF wrap = "prose" THEN <<111, 107, 58, 32>> \o s \o <<32, 111, 107>>
    ELSE s

\* the arguments tried: None, and every text in every wrapping (json and
\* wrap record how the text was made; the code sees the text only)
Responses ==
    { [none |-> TRUE, text |-> <<>>, json |-> <<>>, wrap |-> "bare"] }
    \cup { [none |-> FALSE, text |-> wrapped(s, w), json |-> s, wrap |-> w] :
             s \in JsonTexts(MaxNest) \cup OddTexts \cup Malformed,
             w \in {"bare", "fence", "prose"} }

InitParse ==
    /\ cfg = Settings
    /\ IdlePP
    /\ IdleGen
    /\ IdleCut
    /\ response \in Responses
    /\ cleaned_text = <<>>
    /\ tried = <<>>
    /\ parsed = NoValue
    /\ jpc = "called"

\* from the debug line to the slice: response_text[:200] raises TypeError
\* on None
CleanResponse ==
    /\ jpc = "called"
    /\ IF response.none
       THEN /\ jpc' = "TypeError"
            /\ UNCHANGED cleaned_text
       ELSE /\ cleaned_text' = clean(response.text)
            /\ jpc' = "strategies"
    /\ UNCHANGED <<cfg, ppVars, genVars, cutVars, response, tried, parsed>>

\* one round of the loop over parsing_strategies
TryStrategy ==
    /\ jpc = "strategies"
    /\ Len(tried) < Len(parsing_strategies)
    /\ LET s == parsing_strategies[Len(tried) + 1]
       IN  /\ tried' = Append(tried, s)
           /\ \E r \in strategy(s, cleaned_text) :
                 IF r.ok
                 THEN parsed' = r /\ jpc' = "returned"
                 ELSE UNCHANGED <<parsed, jpc>>
    /\ UNCHANGED <<cfg, ppVars, genVars, cutVars, response, cleaned_text>>

\* the loop is over: raise ValueError
GiveUp ==
    /\ jpc = "strategies"
    /\ Len(tried) = Len(parsing_strategies)
    /\ jpc' = "ValueError"
    /\ UNCHANGED <<cfg, ppVars, genVars, cutVars, response, cleaned_text, tried, parsed>>

NextParse == CleanResponse \/ TryStrategy \/ GiveUp

SpecParse == InitParse /\ [][NextParse]_vars

----------------------------------------------------------------------------
(* Reading a returned tree *)

\* the first call ran to the final return statement
Normalized == pc # "start" /\ ret = "normalized"

KeysOf(t) == { t.nodes[i].key : i \in 1..Len(t.nodes) }

DistinctKeys(t) ==
    \A i, j \in 1..Len(t.nodes) : t.nodes[i].key = t.nodes[j].key => i = j

\* the nodes of t without a `parent` field
Parentless(t) == { i \in 1..Len(t.nodes) : t.nodes[i].parent = Absent }

\* walking up from node i along parent keys arrives at node r in at most
\* `fuel` steps (a walk that visits no node twice needs fewer than Len steps)
RECURSIVE ReachesRoot(_, _, _, _)
ReachesRoot(t, i, r, fuel) ==
    \/ i = r
    \/ /\ fuel > 0
       /\ Get(t.nodes[i].parent) # NoneV
       /\ \E j \in 1..Len(t.nodes) :
            /\ t.nodes[j].key = t.nodes[i].parent
            /\ ReachesRoot(t, j, r, fuel - 1)

\* the least number of edges from node i up to a node without parent;
\* Len(t.nodes) when no walk gets there
RECURSIVE DepthIn(_, _, _)
DepthIn(t, i, fuel) ==
    IF Get(t.nodes[i].parent) = NoneV THEN 0
    ELSE LET up == { j \in 1..Len(t.nodes) : t.nodes[j].key = t.nodes[i].parent }
             ds == { DepthIn(t, j, fuel - 1) : j \in up }
         IN  IF fuel = 0 \/ up = {} THEN Len(t.nodes)
             ELSE Min(Len(t.nodes), 1 + CHOOSE d \in ds : \A e \in ds : d <= e)

\* the input has a node list, and a dict entry of it has no parent
HasParentless(d) ==
    /\ ~no_tree(d)
    /\ \E i \in 1..Len(d.nodes) : d.nodes[i].isdict /\ Get(d.nodes[i].parent) = NoneV

\* a dict entry of the input has a key that cannot be hashed
HasUnhashableKey(d) ==
    \E i \in 1..Len(d.nodes) : d.nodes[i].isdict /\ d.nodes[i].key = Unhashable

\* the working state orphan pruning starts from (the call has a root and
\* got past the children mapping)
before_orphans(d, c) == build_children(limit_nodes(find_root(enforce_class(frame(d))), c))

\* the entries of the list `cur` whose parent key is no key of the list,
\* and every entry reached from them down the parent links
RECURSIVE Doomed(_, _, _)
Doomed(arr, cur, set) ==
    LET keys == { arr[cur[i]].key : i \in 1..Len(cur) }
        more == { i \in 1..Len(cur) :
                    LET p == Get(arr[cur[i]].parent)
                    IN  /\ p # NoneV
                        /\ \/ p \notin keys
                           \/ \E j \in set : arr[cur[j]].key = p }
    IN  IF more \subseteq set THEN set ELSE Doomed(arr, cur, set \cup more)

----------------------------------------------------------------------------
(* The claims *)

\* C1: after post_process_mindmap, under every depth setting, every node
\* other than the root has a parent key that is the key of an output node,
\* and the walk up its parent chain reaches the root without visiting a node
\* twice.
C1_ParentChainsReachRoot ==
    Normalized =>
        \A i \in 1..Len(out.nodes) :
            \/ i = rootAt
            \/ /\ rootAt # 0
               /\ out.nodes[i].parent \in KeysOf(out)
               /\ ReachesRoot(out, i, rootAt, Len(out.nodes) - 1)

\* C2: for every input with a parentless node, the output holds exactly one
\* node without a parent field, that node is the root, and no output node
\* has a null parent.
C2_ExactlyOneRoot ==
    (Normalized /\ HasParentless(data)) =>
        /\ Cardinality(Parentless(out)) = 1
        /\ rootAt \in Parentless(out)
        /\ \A i \in 1..Len(out.nodes) : out.nodes[i].parent # NoneV

\* C3 as stated: for every input mapping the returned node array has at most
\* MINDMAP_MAX_NODES entries.
C3_AlwaysWithinCap ==
    (pc # "start" /\ data.mapping) => Len(out.nodes) <= cfg.MINDMAP_MAX_NODES

\* C3 amended: for every input mapping whose node list holds a parentless
\* dict entry and no unhashable key, the returned node array has at most
\* MINDMAP_MAX_NODES entries.
C3_WithinCapWhenRooted ==
    (pc # "start" /\ HasParentless(data) /\ ~HasUnhashableKey(data)) =>
        Len(out.nodes) <= cfg.MINDMAP_MAX_NODES

\* C3 witness: a rooted input longer than the cap came back cut to the cap.
C3_Truncated ==
    /\ pc = "done"
    /\ HasParentless(data) /\ ~HasUnhashableKey(data)
    /\ Len(data.nodes) > cfg.MINDMAP_MAX_NODES
    /\ Len(out.nodes) = cfg.MINDMAP_MAX_NODES

\* C4: with a non-negative MINDMAP_MAX_DEPTH every output node lies at depth
\* at most MINDMAP_MAX_DEPTH; with a negative one the output holds every
\* node that truncation and orphan pruning left.
C4_DepthWithinLimit ==
    Normalized =>
        IF cfg.MINDMAP_MAX_DEPTH >= 0
        THEN \A i \in 1..Len(out.nodes) :
                 DepthIn(out, i, Len(out.nodes)) <= cfg.MINDMAP_MAX_DEPTH
        ELSE Len(out.nodes) = Len(prune_orphans(before_orphans(data, cfg)).cur)

\* C5: post_process_mindmap is idempotent: on a tree with a parentless node
\* the second call returns what the first returned.
C5_Idempotent ==
    (pc = "redone" /\ ret = "normalized" /\ HasParentless(data)) => again = out

\* C7: orphan pruning removes exactly the nodes whose parent key is the key
\* of no node of the (truncated) list, together with their descendants, and
\* no other node.
C7_OrphansExactly ==
    Normalized =>
        LET s2 == before_orphans(data, cfg)
            s3 == prune_orphans(s2)
            removed == { i \in 1..Len(s2.cur) :
                           \A j \in 1..Len(s3.cur) : s3.cur[j] # s2.cur[i] }
        IN  removed = Doomed(s2.arr, s2.cur, {})

\* C8: with MINDMAP_EXCLUDE_EXAMPLES enabled, under every depth setting, no
\* output node has a text that matches an exclusion keyword, and none hangs
\* under input nodes that all match.
C8_NoExampleNodes ==
    (Normalized /\ cfg.MINDMAP_EXCLUDE_EXAMPLES) =>
        \A i \in 1..Len(out.nodes) :
            /\ ~matches_example(out.nodes[i].text)
            /\ LET up == { j \in 1..Len(data.nodes) :
                             data.nodes[j].key = out.nodes[i].parent }
               IN  up = {} \/ \E j \in up : ~matches_example(data.nodes[j].text)

\* C9: when an exception occurs inside post_process_mindmap, the value it
\* returns equals the original input.
C9_ErrorReturnsInput ==
    (pc # "start" /\ ret = "error") => out = data

\* C10 as stated: an input that is not a mapping, has a missing or empty
\* node array, or has no parentless node, is returned with nothing added,
\* removed or changed.
C10_RootlessUntouched ==
    (pc # "start" /\ ~HasParentless(data)) => out = data

\* C10 amended: such an input is returned with nothing changed, except that
\* an input with a non-empty node list gets the class tag "go.TreeModel"
\* when it has none.
C10_RootlessOnlyTagged ==
    (pc # "start" /\ ~HasParentless(data)) =>
        out = IF no_tree(data) \/ data.class # NoStr THEN data
              ELSE [data EXCEPT !.class = "go.TreeModel"]

\* C10 witness: a node list longer than the cap, with no parentless node,
\* came back with all its nodes and the class tag set.
C10_RootlessReturned ==
    /\ pc = "done" /\ ret = "no_root"
    /\ Len(data.nodes) > cfg.MINDMAP_MAX_NODES
    /\ out.nodes = data.nodes
    /\ data.class = NoStr /\ out.class = "go.TreeModel"

\* the data-model invariants of a tree under the settings c
ValidTree(t, c) ==
    /\ t.mapping /\ t.array = "list"
    /\ \A i \in 1..Len(t.nodes) : t.nodes[i].isdict /\ t.nodes[i].key >= 0
    /\ DistinctKeys(t)
    /\ Cardinality({ i \in 1..Len(t.nodes) : Get(t.nodes[i].parent) = NoneV }) = 1
    /\ \A i \in 1..Len(t.nodes) :
           Get(t.nodes[i].parent) = NoneV \/ t.nodes[i].parent \in KeysOf(t)
    /\ c.MINDMAP_MAX_DEPTH >= 0 =>
           \A i \in 1..Len(t.nodes) : DepthIn(t, i, Len(t.nodes)) <= c.MINDMAP_MAX_DEPTH
    /\ Len(t.nodes) <= c.MINDMAP_MAX_NODES

\* C6: every tree generate returns, on the single-pass path and on the
\* multi-chunk path, satisfies the data-model invariants (keys distinct, one
\* parentless node, every other parent present, depth within the maximum,
\* node count within the cap).
C6_GeneratedTreeValid ==
    gpc = "returned" => ValidTree(generated, cfg)

----------------------------------------------------------------------------
(* Colours, sides and the root anchor *)

\* the colour the palette holds for depth d
PaletteAt(d) == MINDMAP_COLORS[Min(d, Len(MINDMAP_COLORS) - 1) + 1]

\* node i of t hangs, by parent keys, under a node without parent
Rooted(t, i) == DepthIn(t, i, Len(t.nodes)) < Len(t.nodes)

\* C11: every output node at depth d from the root carries the palette
\* colour of depth d (the last colour from depth 7 on), so two nodes at the
\* same depth carry the same colour.
C11_BrushByDepth ==
    Normalized =>
        \A i \in 1..Len(out.nodes) :
            Rooted(out, i) =>
                out.nodes[i].brush = PaletteAt(DepthIn(out, i, Len(out.nodes)))

\* the main branches of t: the nodes whose parent is the key of a node
\* without parent
MainBranches(t) ==
    { i \in 1..Len(t.nodes) :
        \E r \in Parentless(t) : t.nodes[i].parent = t.nodes[r].key }

\* the weight of node i: the node and everything below it
Weight(t, i) ==
    Cardinality({ j \in 1..Len(t.nodes) : ReachesRoot(t, j, i, Len(t.nodes)) })

RECURSIVE SumWeights(_, _)
SumWeights(t, S) ==
    IF S = {} THEN 0
    ELSE LET i == CHOOSE x \in S : TRUE
         IN  Weight(t, i) + SumWeights(t, S \ {i})

\* the total weight of the main branches of t on one side
SideTotal(t, side) ==
    SumWeights(t, { i \in MainBranches(t) : t.nodes[i].dir = side })

Distance(a, b) == IF a >= b THEN a - b ELSE b - a

\* the main branches of t weigh 10, 1, 1, 1, 1, 1, 1, 1 in some order
ExampleWeights(t) ==
    /\ Cardinality(MainBranches(t)) = 8
    /\ Cardinality({ i \in MainBranches(t) : Weight(t, i) = 10 }) = 1
    /\ Cardinality({ i \in MainBranches(t) : Weight(t, i) = 1 }) = 7

\* the branch of weight 10 is alone on its side
HeavyAlone(t) ==
    \E h \in MainBranches(t) :
        /\ Weight(t, h) = 10
        /\ t.nodes[h].dir \in {"left", "right"}
        /\ \A i \in MainBranches(t) \ {h} :
               /\ t.nodes[i].dir \in {"left", "right"}
               /\ t.nodes[i].dir # t.nodes[h].dir

\* C12 as stated: with main branches of weights [10,1,1,1,1,1,1,1] the
\* branch of weight 10 is alone on one side, the seven others are on the
\* other side, and the two totals differ by at most the weight of the
\* largest remaining branch, which is 1.
C12_HeavyAloneWithinOne ==
    (Normalized /\ ExampleWeights(out)) =>
        /\ HeavyAlone(out)
        /\ Distance(SideTotal(out, "left"), SideTotal(out, "right")) <= 1

\* C12 as the code has it: the branch of weight 10 is alone on the left, the
\* seven others are on the right, and the totals 10 and 7 differ by 3, which
\* is within the weight of the heaviest branch.
C12_HeavyAloneWithinHeaviest ==
    (Normalized /\ ExampleWeights(out)) =>
        /\ HeavyAlone(out)
        /\ SideTotal(out, "left") = 10
        /\ SideTotal(out, "right") = 7
        /\ Distance(SideTotal(out, "left"), SideTotal(out, "right")) <= 10

\* the example was normalised with its heaviest branch last in the list
C12_ExampleBalanced ==
    /\ Normalized
    /\ ExampleWeights(out)
    /\ \A i \in MainBranches(out) : Weight(out, i) = 10 => i = 9

\* node i of t hangs under a main branch of t and carries that branch's dir
FollowsBranch(t, i) ==
    \E b \in MainBranches(t) :
        /\ ReachesRoot(t, i, b, Len(t.nodes))
        /\ t.nodes[i].dir = t.nodes[b].dir

\* C13: every output node other than the root has a brush, and a dir that
\* is "left" or "right" and is the dir of the main branch it descends from.
C13_SidesFollowBranch ==
    Normalized =>
        \A i \in 1..Len(out.nodes) :
            i # rootAt =>
                /\ out.nodes[i].brush # NoStr
                /\ out.nodes[i].dir \in {"left", "right"}
                /\ FollowsBranch(out, i)

\* the node of the input the call binds to `root`: the last one without
\* parent (0 when there is none)
LastParentless(d) ==
    LET S == { i \in 1..Len(d.nodes) : Get(d.nodes[i].parent) = NoneV }
    IN  IF S = {} THEN 0 ELSE CHOOSE i \in S : \A j \in S : j <= i

\* C14: in the output the root carries a loc, its own input value when that
\* was not empty and "0 0" otherwise, and no other node carries a loc,
\* whatever fields the input nodes carried.
C14_LocOnlyOnRoot ==
    Normalized =>
        /\ rootAt # 0
        /\ out.nodes[rootAt].loc =
               IF data.nodes[LastParentless(data)].loc \in {NoStr, ""}
               THEN "0 0"
               ELSE data.nodes[LastParentless(data)].loc
        /\ \A i \in 1..Len(out.nodes) : i # rootAt => out.nodes[i].loc = NoStr

----------------------------------------------------------------------------
(* Merging *)

\* _merge_mindmaps has returned
Merged == gpc = "merged"

\* the first node without parent of map t (0 when it has none)
FirstParentless(t) ==
    LET S == { i \in 1..Len(t.nodes) : Get(t.nodes[i].parent) = NoneV }
    IN  IF S = {} THEN 0 ELSE CHOOSE i \in S : \A j \in S : i <= j

\* C15: whatever keys the maps use, the keys of the merged tree are pairwise
\* distinct integers: the synthetic root has key 0 and the keys grow along
\* the list, each taken from the one counter.
C15_MergedKeysDistinct ==
    Merged =>
        LET ns == merged.nodes
        IN  /\ ns # <<>> => (ns[1].key = 0 /\ ns[1].parent = Absent)
            /\ \A i \in 1..Len(ns) : ns[i].key \in Nat
            /\ \A i, j \in 1..Len(ns) : i < j => ns[i].key < ns[j].key

\* two maps that use the same keys 1 and 2 were merged into five nodes
C15_SameKeysMerged ==
    /\ Merged
    /\ Len(partial_maps) = 2
    /\ \A k \in 1..2 :
           /\ Len(partial_maps[k].nodes) = 2
           /\ partial_maps[k].nodes[1].key = 1
           /\ partial_maps[k].nodes[1].parent = Absent
           /\ partial_maps[k].nodes[2].key = 2
           /\ partial_maps[k].nodes[2].parent = 1
    /\ Len(merged.nodes) = 5

\* a text lower-cased, its runs of whitespace collapsed, its ends stripped
Folded(t) ==
    LET s == rstrip(lstrip(collapse(t)))
    IN  [i \in 1..Len(s) |-> lower(s[i])]

\* the nodes of map t whose parent is the key k
ChildrenOf(t, k) == { i \in 1..Len(t.nodes) : Get(t.nodes[i].parent) = k }

\* the number of ways down from the nodes S of map t: each node of S, and
\* under it each of its children, and so on
RECURSIVE Descents(_, _, _)
Descents(t, S, fuel) ==
    IF S = {} \/ fuel = 0 THEN 0
    ELSE LET i == CHOOSE x \in S : TRUE
         IN  1 + Descents(t, ChildrenOf(t, t.nodes[i].key), fuel - 1)
               + Descents(t, S \ {i}, fuel)

\* the nodes the merged tree holds when nothing is dropped: the synthetic
\* root, and per map with a root one branch and one copy per descent
RECURSIVE Undropped(_)
Undropped(maps) ==
    IF maps = <<>> THEN 1
    ELSE LET t == Head(maps)
             r == FirstParentless(t)
         IN  Undropped(Tail(maps)) +
             IF r = 0 THEN 0
             ELSE 1 + Descents(t, ChildrenOf(t, t.nodes[r].key), Len(t.nodes))

\* C16: with MINDMAP_DEDUPLICATE_NODES on, no two nodes of the merged tree
\* have the same parent and the same folded text, branches included; with it
\* off no node reached from a source root is left out as a duplicate: the
\* tree holds all of them, up to the cut at MINDMAP_MAX_NODES.
C16_DuplicatesCollapsed ==
    Merged =>
        LET ns == merged.nodes
        IN  IF cfg.MINDMAP_DEDUPLICATE_NODES
            THEN \A i, j \in 1..Len(ns) :
                     (i # j /\ ns[i].parent = ns[j].parent) =>
                         Folded(ns[i].text) # Folded(ns[j].text)
            ELSE ns # <<>> =>
                     Len(ns) = Min(cfg.MINDMAP_MAX_NODES, Undropped(partial_maps))

\* a map with two children of its root that differ in case or spacing only
\* was merged with the option on, and one of the two was dropped
C16_SiblingDropped ==
    /\ Merged
    /\ cfg.MINDMAP_DEDUPLICATE_NODES
    /\ Len(partial_maps) = 1
    /\ LET t == partial_maps[1]
           r == FirstParentless(t)
       IN  /\ r # 0
           /\ \E i, j \in ChildrenOf(t, t.nodes[r].key) :
                  /\ t.nodes[i].text # t.nodes[j].text
                  /\ Folded(t.nodes[i].text) = Folded(t.nodes[j].text)
    /\ Len(merged.nodes) = 3
    /\ Undropped(partial_maps) = 4

\* the label of the branch of map k (counted from 1) with root r: the
\* root's text, "Chunk k" when it has none
BranchLabel(t, r, k) ==
    IF t.nodes[r].text = <<>>
    THEN <<67, 104, 117, 110, 107, 32>> \o digits(k)
    ELSE t.nodes[r].text

\* C17: for every map with a root the merged tree holds a branch under the
\* synthetic root that carries the root's text ("Chunk N" without text), and
\* every child of that root is in the merged tree as a child of the branch
\* (itself, or the sibling of the same folded text that stands for it);
\* the root itself is not copied, so the tree holds no more than the
\* synthetic root, the branches and the copies.
C17_BranchPerRootedMap ==
    Merged =>
        LET ns == merged.nodes
        IN  /\ Len(ns) <= Undropped(partial_maps)
            /\ \A k \in 1..Len(partial_maps) :
                   LET t == partial_maps[k]
                       r == FirstParentless(t)
                   IN  r # 0 =>
                           \E b \in 1..Len(ns) :
                               /\ ns[b].parent = 0
                               /\ ns[b].text = BranchLabel(t, r, k)
                               /\ \A ch \in ChildrenOf(t, t.nodes[r].key) :
                                      \E x \in 1..Len(ns) :
                                          /\ ns[x].parent = ns[b].key
                                          /\ Folded(ns[x].text) = Folded(t.nodes[ch].text)

----------------------------------------------------------------------------
(* Failed chunks *)

\* generation failed for this reply: the chain or the parser raised, or the
\* parsed value has no node array
Failed(reply) ==
    \/ reply.failed
    \/ reply.value.array = "missing"

\* generate went the multi-chunk way and has returned
MultiReturned == gpc = "returned" /\ partial_maps # <<>>

MainPoint == <<77, 97, 105, 110, 32, 80, 111, 105, 110, 116>>

AllChunksFailed ==
    /\ MultiReturned
    /\ \A k \in 1..Len(replies) : Failed(replies[k])

EducationalContent ==
    <<69, 100, 117, 99, 97, 116, 105, 111, 110, 97, 108, 32,
      67, 111, 110, 116, 101, 110, 116>>

----------------------------------------------------------------------------
(* Chunking *)

\* C20: for every text, every size > 0 and every overlap, each window of
\* _chunk_text starts strictly after the window before it (so the loop ends
\* after at most as many rounds as the text has characters).
C20_StartsIncrease ==
    size > 0 =>
        /\ \A i \in 1..(Len(windows) - 1) : windows[i].start < windows[i + 1].start
        /\ Len(windows) <= Max(1, Len(text))

----------------------------------------------------------------------------
(* Termination of the walks; what the calls leave alone *)

\* C24: _merge_mindmaps returns a tree for every list of maps, maps with
\* duplicate keys, self-parents and parent cycles included: the walk never
\* goes on for ever and no exception leaves the call.
C24_MergeReturns ==
    gpc \notin {"hung", "raised"}

\* every entry of the node list is a dict whose key can be hashed
PlainEntries(d) ==
    \A i \in 1..Len(d.nodes) : d.nodes[i].isdict /\ d.nodes[i].key # Unhashable

\* C25: every walk of post_process_mindmap goes into a node at most once, so
\* on node lists with duplicate keys, self-parents or parent cycles the call
\* runs through all its steps and does not leave through the except clause.
C25_WalksComplete ==
    (pc # "start" /\ PlainEntries(data)) => ret # "error"

\* the entries of the input node list the call returned
Survivors ==
    LET s == run(data, cfg) IN { s.cur[j] : j \in 1..Len(s.cur) }

\* entry i of the input was removed for one of the listed reasons
RemovalReason(i) ==
    LET s1 == limit_nodes(find_root(enforce_class(frame(data))), cfg)
        s2 == before_orphans(data, cfg)
        orphaned == { s2.cur[j] : j \in Doomed(s2.arr, s2.cur, {}) }
    IN  \/ \A j \in 1..Len(s1.cur) : s1.cur[j] # i
        \/ i \in orphaned
        \/ /\ cfg.MINDMAP_MAX_DEPTH >= 0
           /\ DepthIn(data, i, Len(data.nodes)) > cfg.MINDMAP_MAX_DEPTH
        \/ cfg.MINDMAP_EXCLUDE_EXAMPLES /\ matches_example(data.nodes[i].text)
        \/ \E j \in 1..Len(data.nodes) :
              /\ j \notin Survivors
              /\ data.nodes[j].key = Get(data.nodes[i].parent)

\* C26: post_process_mindmap removes a node only when it lies beyond the
\* node cap, is an orphan or hangs under one, lies deeper than the depth
\* limit, has a text of the exclusion vocabulary, or has a removed parent;
\* every other input node is in the output.
C26_RemovedForAReason ==
    Normalized =>
        \A i \in 1..Len(data.nodes) : i \in Survivors \/ RemovalReason(i)

\* node o of the output carries what node n of the input carried, brush,
\* dir, loc and a null parent aside
SameFields(o, n) ==
    /\ o.isdict = n.isdict
    /\ o.key = n.key
    /\ o.text = n.text
    /\ o._depth = n._depth
    /\ o.parent = n.parent \/ (n.parent = NoneV /\ o.parent = Absent)

\* C27: every node of the output of post_process_mindmap has the key, the
\* text and every field other than brush, dir, loc and a null parent that it
\* had in the input, and the output nodes stand in the order of the input.
C27_FieldsAndOrderKept ==
    (pc # "start" /\ ~no_tree(data)) =>
        LET s == run(data, cfg)
        IN  /\ Len(out.nodes) = Len(s.cur)
            /\ \A j \in 1..Len(s.cur) : SameFields(out.nodes[j], data.nodes[s.cur[j]])
            /\ \A j \in 1..(Len(s.cur) - 1) : s.cur[j] < s.cur[j + 1]

\* the weight of the heaviest main branch of t, 0 without main branches
Heaviest(t) ==
    IF MainBranches(t) = {} THEN 0
    ELSE LET ws == { Weight(t, i) : i \in MainBranches(t) }
         IN  CHOOSE w \in ws : \A v \in ws : v <= w

\* C28: after the balancing step of post_process_mindmap the left and the
\* right total (weight of a branch = 1 + number of its descendants) differ
\* by at most the weight of the heaviest main branch, and together they
\* count every output node but the root.
C28_TotalsBalanced ==
    (Normalized /\ rootAt # 0) =>
        /\ Distance(SideTotal(out, "left"), SideTotal(out, "right")) <= Heaviest(out)
        /\ SideTotal(out, "left") + SideTotal(out, "right") = Len(out.nodes) - 1

----------------------------------------------------------------------------
(* Parent references of the merged tree *)

\* C29: in the tree _merge_mindmaps returns, with deduplication on or off
\* and after the cut at MINDMAP_MAX_NODES, every node but the synthetic root
\* has a parent key that is the key of a node standing earlier in the list:
\* no parent reference dangles.
C29_ParentsStandEarlier ==
    Merged =>
        \A i \in 2..Len(merged.nodes) :
            \E j \in 1..(i - 1) : merged.nodes[j].key = merged.nodes[i].parent

----------------------------------------------------------------------------
(* The windows of _chunk_text *)

\* _chunk_text has returned from a call with size > 0
ChunkingDone == cpc = "returned" /\ size > 0

\* the characters of window w are all whitespace
Blank(w) ==
    \A p \in (w.start + 1)..w.end : text[p] \in Whitespace

\* C30: when _chunk_text finishes for a size > 0, every window [start, end)
\* is at most size characters long, the first starts at 0, each following
\* one starts at or before the end of the one before, the last ends at
\* len(text), every character of the text lies in a window, and the chunks
\* left out of the result are those of the windows that hold only
\* whitespace.
C30_WindowsCoverText ==
    ChunkingDone =>
        /\ \A i \in 1..Len(windows) :
               /\ windows[i].end - windows[i].start <= size
               /\ windows[i].chunk = <<>> <=> Blank(windows[i])
        /\ IF windows = <<>> THEN text = <<>>
           ELSE /\ windows[1].start = 0
                /\ windows[Len(windows)].end = Len(text)
        /\ \A i \in 1..(Len(windows) - 1) : windows[i + 1].start <= windows[i].end
        /\ \A p \in 1..Len(text) :
               \E i \in 1..Len(windows) : windows[i].start < p /\ p <= windows[i].end
        /\ Len(chunks_of(size, windows))
               = Cardinality({ i \in 1..Len(windows) : ~Blank(windows[i]) })

\* C30 witness: a call with a negative overlap that cut three windows or
\* more and left one of them out
C30_CutAndDropped ==
    /\ ChunkingDone
    /\ overlap < 0
    /\ Len(windows) >= 3
    /\ \E i \in 1..Len(windows) : windows[i].chunk = <<>>

----------------------------------------------------------------------------
(* clean_and_parse_json *)

\* C21: for every input (None, the empty string, prose, a top-level array
\* or scalar, malformed JSON) clean_and_parse_json returns a mapping or
\* raises the one error that follows the last strategy; it returns no value
\* that is not a mapping and raises nothing else before the strategies are
\* through.
C21_MappingOrParseError ==
    /\ jpc = "returned" => Head(parsed.val) = 123
    /\ jpc # "TypeError"
    /\ jpc = "ValueError" => Len(tried) = Len(parsing_strategies)

\* the order the spec gives: strict, strict on the collapsed text, repair,
\* repair on the collapsed text
StrictFirst ==
    << [cleanup |-> FALSE, repair |-> FALSE], [cleanup |-> TRUE, repair |-> FALSE],
       [cleanup |-> FALSE, repair |-> TRUE], [cleanup |-> TRUE, repair |-> TRUE] >>

\* strict, repair, then both on the text without newlines and tabs
RepairSecond ==
    << [cleanup |-> FALSE, repair |-> FALSE], [cleanup |-> FALSE, repair |-> TRUE],
       [cleanup |-> TRUE, repair |-> FALSE], [cleanup |-> TRUE, repair |-> TRUE] >>

\* the strategies were called in this order, the call returned what the
\* last one called handed back, every one before it had failed, and the
\* error was raised after all of them failed
CalledInOrder(order) ==
    /\ Len(tried) <= Len(order)
    /\ tried = SubSeq(order, 1, Len(tried))
    /\ jpc = "returned" =>
           /\ tried # <<>>
           /\ parsed.ok
           /\ parsed \in strategy(tried[Len(tried)], cleaned_text)
           /\ \A i \in 1..(Len(tried) - 1) : NoValue \in strategy(tried[i], cleaned_text)
    /\ jpc = "ValueError" =>
           /\ Len(tried) = Len(order)
           /\ \A i \in 1..Len(tried) : NoValue \in strategy(tried[i], cleaned_text)

\* C22 as stated: the strategies are tried in the order strict parse of the
\* sliced text, strict parse of the whitespace-collapsed text, repair of the
\* sliced text, repair of the whitespace-collapsed text; the first that
\* succeeds gives the result and no later one is tried.
C22_StrictBeforeRepair == CalledInOrder(StrictFirst)

\* C22 as the code has it: strict parse of the sliced text, repair of the
\* sliced text, strict parse of the text with newlines and tabs turned into
\* blanks, repair of that text; the first that succeeds gives the result and
\* no later one is tried.
C22_RepairBeforeCleanup == CalledInOrder(RepairSecond)

\* C22 witness: the third strategy gave the result after the strict parse
\* and the repair of the sliced text had failed
C22_ThirdStrategyReturned ==
    /\ jpc = "returned"
    /\ Len(tried) = 3
    /\ ~json_loads(cleaned_text).ok
    /\ parsed = json_loads(common_cleanup(cleaned_text))

\* C23: for every valid JSON text s, clean_and_parse_json of s in a ```json
\* fence returns json.loads(s), and so does clean_and_parse_json of s bare.
C23_FencedOrBareRoundTrip ==
    (/\ response.wrap \in {"bare", "fence"}
     /\ ~response.none
     /\ json_loads(response.json).ok) =>
        /\ jpc = "returned" => parsed = json_loads(response.json)
        /\ jpc # "ValueError"

====
